---- MODULE Spec2Model ----
(***************************************************************************)
(* Model of the ESL RAG application: the relational tables (Student,       *)
(* HomeworkTemplate, ActivityTemplate, PersonalizedHomework,               *)
(* ActivityGroup), the three vector-store collections, the sync routine,   *)
(* the pairing generator, the homework generation pipeline and the         *)
(* dispatch of the command line.                                           *)
(***************************************************************************)
EXTENDS Integers, Sequences, FiniteSets, TLC

VARIABLES students, homeworkTemplates, activityTemplates,
          homeworks, groups,
          client_collections,
          homework_collection, activity_collection, student_profiles_collection,
          lastOp, args, result,
          pc, template_data, selected, content, trace

vars == <<students, homeworkTemplates, activityTemplates, homeworks, groups,
          client_collections, homework_collection, activity_collection, student_profiles_collection,
          lastOp, args, result, pc, template_data, selected, content, trace>>

tables == <<students, homeworkTemplates, activityTemplates>>
collections == <<client_collections,
                 homework_collection, activity_collection, student_profiles_collection>>
callState == <<pc, template_data, selected, content, trace>>

----------------------------------------------------------------------------
(* Bounds of the model *)
MaxStudents == 4
MaxTemplates == 2
MaxGroups == 2
MaxHomeworks == 1

(* Python's None, and Python truthiness of an Optional[int] *)
None == -1
Truthy(x) == x # None /\ x # 0

Range(seq) == {seq[i] : i \in DOMAIN seq}
Count(seq, x) == Cardinality({i \in DOMAIN seq : seq[i] = x})

ClassIds == {1, 2}
MissingStudentId == MaxStudents + 5
StudentIdArgs == {1, MissingStudentId}
TemplateIdArgs == {None, 0, 1, 2, MaxTemplates + 1}
ClassIdArgs == {None, 1}

(* the calls of generate_homework: every combination of arguments for a student id
   that may exist, the call with class id 0, and the calls with an id no student has *)
HomeworkCalls ==
    [student_id : StudentIdArgs \ {MissingStudentId}, template_id : TemplateIdArgs,
     class_id : ClassIdArgs, save_to_db : BOOLEAN]
    \cup [student_id : StudentIdArgs \ {MissingStudentId}, template_id : {None},
          class_id : {0}, save_to_db : {FALSE}]
    \cup [student_id : {MissingStudentId}, template_id : {None, 1},
          class_id : {None}, save_to_db : {TRUE}]

----------------------------------------------------------------------------
(* str(n) and int(s) for non-negative integers: decimal digit strings *)
RECURSIVE str(_)
str(n) == IF n < 10 THEN <<n>> ELSE str(n \div 10) \o <<n % 10>>

RECURSIVE int(_)
int(s) == IF Len(s) = 0 THEN 0
          ELSE 10 * int(SubSeq(s, 1, Len(s) - 1)) + s[Len(s)]

(* the ids of the vector-store entries: f"homework_template_{template_id}" etc. *)
HomeworkEntryId(template_id) == <<"homework_template_">> \o str(template_id)
ActivityEntryId(template_id) == <<"activity_template_">> \o str(template_id)
StudentEntryId(student_id) == <<"student_profile_">> \o str(student_id)

(* variant: collection.add stores the entry without looking for its id *)
CollectionAdd_dup(coll, entry) == Append(coll, entry)

(* collection.add of one entry; a collection is the list of its entries in the order
   they were stored, and an id already in the collection is left as it is *)
CollectionAdd(coll, entry) ==
    IF \E i \in DOMAIN coll : coll[i].id = entry.id THEN coll ELSE Append(coll, entry)

(* variant: the entry id is built from the class id *)
add_homework_template_byclass(coll, t) ==
    CollectionAdd(coll, [id |-> HomeworkEntryId(t.class_id),
                         template_id |-> str(t.template_id),
                         class_id |-> str(t.class_id)])

add_homework_template(coll, t) ==
    CollectionAdd(coll, [id |-> HomeworkEntryId(t.template_id),
                         template_id |-> str(t.template_id),
                         class_id |-> str(t.class_id)])

add_activity_template(coll, t) ==
    CollectionAdd(coll, [id |-> ActivityEntryId(t.template_id),
                         template_id |-> str(t.template_id),
                         class_id |-> str(t.class_id)])

add_student_profile(coll, s) ==
    CollectionAdd(coll, [id |-> StudentEntryId(s.student_id),
                         student_id |-> str(s.student_id)])

(* the sync loops: one add per row, in row order; the returned list has one id per row *)
RECURSIVE sync_all_homework_templates(_, _)
sync_all_homework_templates(coll, rows) ==
    IF rows = <<>> THEN [coll |-> coll, synced_ids |-> <<>>]
    ELSE LET rest == sync_all_homework_templates(add_homework_template(coll, Head(rows)), Tail(rows))
         IN  [coll |-> rest.coll,
              synced_ids |-> <<HomeworkEntryId(Head(rows).template_id)>> \o rest.synced_ids]

RECURSIVE sync_all_activity_templates(_, _)
sync_all_activity_templates(coll, rows) ==
    IF rows = <<>> THEN [coll |-> coll, synced_ids |-> <<>>]
    ELSE LET rest == sync_all_activity_templates(add_activity_template(coll, Head(rows)), Tail(rows))
         IN  [coll |-> rest.coll,
              synced_ids |-> <<ActivityEntryId(Head(rows).template_id)>> \o rest.synced_ids]

RECURSIVE sync_all_student_profiles(_, _)
sync_all_student_profiles(coll, rows) ==
    IF rows = <<>> THEN [coll |-> coll, synced_ids |-> <<>>]
    ELSE LET rest == sync_all_student_profiles(add_student_profile(coll, Head(rows)), Tail(rows))
         IN  [coll |-> rest.coll,
              synced_ids |-> <<StudentEntryId(Head(rows).student_id)>> \o rest.synced_ids]

----------------------------------------------------------------------------
(* ChromaDBManager: the names of the three collections, and the collections the
   client finds in the persistence directory *)
HOMEWORK_COLLECTION == "homework_templates"
ACTIVITY_COLLECTION == "activity_templates"
STUDENT_PROFILES_COLLECTION == "student_profiles"
CollectionNames == {HOMEWORK_COLLECTION, ACTIVITY_COLLECTION, STUDENT_PROFILES_COLLECTION}

(* variant: the collection is created anew on every call *)
get_or_create_collection_anew(names, name, entries) ==
    [names |-> names \cup {name}, entries |-> <<>>]

(* client.get_or_create_collection: a collection the client has keeps its entries,
   one it does not have is created empty *)
get_or_create_collection(names, name, entries) ==
    [names |-> names \cup {name},
     entries |-> IF name \in names THEN entries ELSE <<>>]

----------------------------------------------------------------------------
(* the questions stored with a homework template *)
TemplateQuestions == <<[question |-> <<"base">>, instructions |-> <<"base">>]>>

(* an empty database, and a RAGDatabaseIntegration whose constructor has created the
   three collections *)
Init ==
    /\ students = <<>>
    /\ homeworkTemplates = <<>>
    /\ activityTemplates = <<>>
    /\ homeworks = <<>>
    /\ groups = <<>>
    /\ client_collections = CollectionNames
    /\ homework_collection = <<>>
    /\ activity_collection = <<>>
    /\ student_profiles_collection = <<>>
    /\ lastOp = "init"
    /\ args = <<>>
    /\ result = <<>>
    /\ pc = "idle"
    /\ template_data = <<>>
    /\ selected = None
    /\ content = <<>>
    /\ trace = <<>>

(* relational inserts (session.add; commit): the primary key is the next integer *)
InsertStudent ==
    /\ pc = "idle"
    /\ Len(students) < MaxStudents
    /\ students' = Append(students, [student_id |-> Len(students) + 1])
    /\ lastOp' = "insert"
    /\ args' = <<>>
    /\ result' = <<>>
    /\ UNCHANGED <<homeworkTemplates, activityTemplates, homeworks, groups, collections, callState>>

InsertHomeworkTemplate ==
    /\ pc = "idle"
    /\ Len(homeworkTemplates) < MaxTemplates
    /\ \E c \in ClassIds :
         homeworkTemplates' = Append(homeworkTemplates,
                                     [template_id |-> Len(homeworkTemplates) + 1, class_id |-> c,
                                      questions |-> TemplateQuestions])
    /\ lastOp' = "insert"
    /\ args' = <<>>
    /\ result' = <<>>
    /\ UNCHANGED <<students, activityTemplates, homeworks, groups, collections, callState>>

InsertActivityTemplate ==
    /\ pc = "idle"
    /\ Len(activityTemplates) < MaxTemplates
    /\ \E c \in ClassIds :
         activityTemplates' = Append(activityTemplates,
                                     [template_id |-> Len(activityTemplates) + 1, class_id |-> c])
    /\ lastOp' = "insert"
    /\ args' = <<>>
    /\ result' = <<>>
    /\ UNCHANGED <<students, homeworkTemplates, homeworks, groups, collections, callState>>

(* main.sync_data_to_chroma: the three syncs in order, the counts of the returned ids *)
sync_data_to_chroma ==
    /\ pc = "idle"
    /\ client_collections = CollectionNames
    /\ LET hw == sync_all_homework_templates(homework_collection, homeworkTemplates)
           act == sync_all_activity_templates(activity_collection, activityTemplates)
           stu == sync_all_student_profiles(student_profiles_collection, students)
       IN  /\ homework_collection' = hw.coll
           /\ activity_collection' = act.coll
           /\ student_profiles_collection' = stu.coll
           /\ result' = [homework_templates |-> Len(hw.synced_ids),
                         activity_templates |-> Len(act.synced_ids),
                         student_profiles |-> Len(stu.synced_ids)]
    /\ lastOp' = "sync"
    /\ args' = [homework |-> Len(homework_collection),
                activity |-> Len(activity_collection),
                students |-> Len(student_profiles_collection)]
    /\ UNCHANGED <<tables, homeworks, groups, client_collections, callState>>

(* ChromaDBManager.create_collections: the names the client has afterwards and the
   entries of the three collections *)
create_collections ==
    LET hw == get_or_create_collection(client_collections, HOMEWORK_COLLECTION,
                                       homework_collection)
        act == get_or_create_collection(hw.names, ACTIVITY_COLLECTION,
                                        activity_collection)
        stu == get_or_create_collection(act.names, STUDENT_PROFILES_COLLECTION,
                                        student_profiles_collection)
    IN  [names |-> stu.names, homework |-> hw.entries, activity |-> act.entries,
         student_profiles |-> stu.entries]

(* main.init_chroma_db: ChromaDBManager.create_collections on the persistence directory *)
init_chroma_db ==
    /\ pc = "idle"
    /\ client_collections' = create_collections.names
    /\ homework_collection' = create_collections.homework
    /\ activity_collection' = create_collections.activity
    /\ student_profiles_collection' = create_collections.student_profiles
    /\ lastOp' = "create_collections"
    /\ args' = [homework |-> Len(homework_collection),
                activity |-> Len(activity_collection),
                students |-> Len(student_profiles_collection)]
    /\ result' = <<>>
    /\ UNCHANGED <<tables, homeworks, groups, callState>>

----------------------------------------------------------------------------
(* RAGDatabaseIntegration.generate_activity_pairings *)

(* session.exec(select(T).where(T.field == value)): the matching rows, in table order;
   .first() is the head of this list and None when the list is empty *)
Where(rows, field, value) == SelectSeq(rows, LAMBDA r : r[field] = value)

(* the rows matching the template the pairing generator looks for *)
SelectActivityTemplate(class_id, activity_template_id) ==
    IF Truthy(activity_template_id)
    THEN Where(activityTemplates, "template_id", activity_template_id)
    ELSE Where(activityTemplates, "class_id", class_id)

(* variant: the loop advances by one, so consecutive pairs overlap *)
RECURSIVE ConsecutivePairs_step1(_, _, _)
ConsecutivePairs_step1(rows, template, i) ==
    IF i >= Len(rows) - 1 THEN <<>>
    ELSE <<[student1_id |-> rows[i + 1].student_id,
            student2_id |-> rows[i + 2].student_id,
            activity_template |-> [template_id |-> template.template_id]]>>
         \o ConsecutivePairs_step1(rows, template, i + 1)

(* variant: the two members of a pair are taken in the opposite order *)
RECURSIVE ConsecutivePairs_swapped(_, _, _)
ConsecutivePairs_swapped(rows, template, i) ==
    IF i >= Len(rows) - 1 THEN <<>>
    ELSE <<[student1_id |-> rows[i + 2].student_id,
            student2_id |-> rows[i + 1].student_id,
            activity_template |-> [template_id |-> template.template_id]]>>
         \o ConsecutivePairs_swapped(rows, template, i + 2)

(* for i in range(0, len(students) - 1, 2): the pairing of students[i], students[i + 1];
   i is the 0-based index of the code *)
RECURSIVE ConsecutivePairs(_, _, _)
ConsecutivePairs(rows, template, i) ==
    IF i >= Len(rows) - 1 THEN <<>>
    ELSE IF i + 1 < Len(rows)
         THEN <<[student1_id |-> rows[i + 1].student_id,
                 student2_id |-> rows[i + 2].student_id,
                 activity_template |-> [template_id |-> template.template_id]]>>
              \o ConsecutivePairs(rows, template, i + 2)
         ELSE ConsecutivePairs(rows, template, i + 2)

(* variant: the odd student out is left without a group *)
AddThirdStudent_dropped(rows, pairings) == pairings

(* variant: the last student joins the last pairing whatever the number of students *)
AddThirdStudent_always(rows, pairings) ==
    IF pairings # <<>>
    THEN [pairings EXCEPT ![Len(pairings)] =
              @ @@ [student3_id |-> rows[Len(rows)].student_id]]
    ELSE pairings

(* if the number of students is odd, the last one joins the last pairing *)
AddThirdStudent(rows, pairings) ==
    IF Len(rows) % 2 # 0 /\ pairings # <<>>
    THEN [pairings EXCEPT ![Len(pairings)] =
              @ @@ [student3_id |-> rows[Len(rows)].student_id]]
    ELSE pairings

db_generate_activity_pairings(class_id, activity_template_id) ==
    IF Len(students) < 2
    THEN [error |-> "Not enough students for pairings"]
    ELSE LET found == SelectActivityTemplate(class_id, activity_template_id)
         IN  IF found = <<>>
             THEN IF Truthy(activity_template_id)
                  THEN [error |-> "Activity template not found"]
                  ELSE [error |-> "No activity templates found for class"]
             ELSE [pairings |-> AddThirdStudent(students,
                                    ConsecutivePairs(students, Head(found), 0))]

(* variant: the second member of the row is copied from the first *)
RECURSIVE SavedGroupRows_copy(_, _)
SavedGroupRows_copy(pairings, first_id) ==
    IF pairings = <<>> THEN <<>>
    ELSE <<[group_id |-> first_id,
            activity_template_id |-> Head(pairings).activity_template.template_id,
            student_id_1 |-> Head(pairings).student1_id,
            student_id_2 |-> Head(pairings).student1_id]>>
         \o SavedGroupRows_copy(Tail(pairings), first_id + 1)

(* main.generate_activity_pairings: the rows saved for a list of pairings, the first
   of them getting the primary key first_id *)
RECURSIVE SavedGroupRows(_, _)
SavedGroupRows(pairings, first_id) ==
    IF pairings = <<>> THEN <<>>
    ELSE LET pairing == Head(pairings)
         IN  IF ~ Truthy(pairing.activity_template.template_id)
             THEN SavedGroupRows(Tail(pairings), first_id)
             ELSE <<[group_id |-> first_id,
                     activity_template_id |-> pairing.activity_template.template_id,
                     student_id_1 |-> pairing.student1_id,
                     student_id_2 |-> pairing.student2_id]>>
                  \o SavedGroupRows(Tail(pairings), first_id + 1)

(* pairing["group_id"] = group.group_id for every pairing that was saved *)
RECURSIVE WithGroupIds(_, _)
WithGroupIds(pairings, first_id) ==
    IF pairings = <<>> THEN <<>>
    ELSE LET pairing == Head(pairings)
         IN  IF ~ Truthy(pairing.activity_template.template_id)
             THEN <<pairing>> \o WithGroupIds(Tail(pairings), first_id)
             ELSE <<pairing @@ [group_id |-> first_id]>>
                  \o WithGroupIds(Tail(pairings), first_id + 1)

(* variant: the entries are listed last group first *)
RECURSIVE SavedGroups_reversed(_)
SavedGroups_reversed(rows) ==
    IF rows = <<>> THEN <<>>
    ELSE SavedGroups_reversed(Tail(rows))
         \o <<[group_id |-> Head(rows).group_id,
                student1_id |-> Head(rows).student_id_1,
                student2_id |-> Head(rows).student_id_2,
                activity_template_id |-> Head(rows).activity_template_id]>>

(* the entries of result["saved_groups"] *)
RECURSIVE SavedGroups(_)
SavedGroups(rows) ==
    IF rows = <<>> THEN <<>>
    ELSE <<[group_id |-> Head(rows).group_id,
            student1_id |-> Head(rows).student_id_1,
            student2_id |-> Head(rows).student_id_2,
            activity_template_id |-> Head(rows).activity_template_id]>>
         \o SavedGroups(Tail(rows))

generate_activity_pairings ==
    /\ pc = "idle"
    /\ \E class_id \in ClassIdArgs \ {None}, activity_template_id \in TemplateIdArgs,
          save_to_db \in BOOLEAN :
         LET r == db_generate_activity_pairings(class_id, activity_template_id)
             saving == save_to_db /\ "pairings" \in DOMAIN r /\ r.pairings # <<>>
             rows == IF saving THEN SavedGroupRows(r.pairings, Len(groups) + 1) ELSE <<>>
         IN  /\ Len(groups) + Len(rows) <= MaxGroups
             /\ groups' = groups \o rows
             /\ result' = IF saving
                          THEN [pairings |-> WithGroupIds(r.pairings, Len(groups) + 1),
                                saved_groups |-> SavedGroups(rows)]
                          ELSE r
             /\ args' = [class_id |-> class_id,
                         activity_template_id |-> activity_template_id,
                         save_to_db |-> save_to_db]
    /\ lastOp' = "pairings"
    /\ UNCHANGED <<tables, homeworks, collections, callState>>

----------------------------------------------------------------------------
(* HomeworkGenerator._extract_questions_from_text, on a text of whitespace-separated
   tokens: the labels "Question:", "Question 1:", "Instructions:", "Expected Answer:",
   the word "Question" and other words *)
(* the first position >= from whose token is in the set, or 0 *)
RECURSIVE FindToken(_, _, _)
FindToken(text, toks, from) ==
    IF from > Len(text) THEN 0
    ELSE IF text[from] \in toks THEN from
    ELSE FindToken(text, toks, from + 1)

(* the first position >= from where a lookahead of the patterns matches: a stop label,
   or the word "Question" with whitespace after it (in the stripped block, when it is
   not the last token); 0 when only the end of the block is left *)
RECURSIVE FindStop(_, _, _)
FindStop(block, stops, from) ==
    IF from > Len(block) THEN 0
    ELSE IF block[from] \in stops \/ (block[from] = "Question" /\ from < Len(block))
    THEN from
    ELSE FindStop(block, stops, from + 1)

(* group(1) of the pattern label(.+?)(?=stop|Question\s|$) searched in the block,
   stripped: <<TRUE, words>> when the label occurs with something after it, else
   <<FALSE, <<>>>> *)
FieldMatch(block, labels, stops) ==
    LET at == FindToken(block, labels, 1)
    IN  IF at = 0 \/ at = Len(block) THEN <<FALSE, <<>>>>
        ELSE LET stop == FindStop(block, stops, at + 1)
                 last == IF stop = 0 THEN Len(block) ELSE stop - 1
             IN  <<TRUE, SubSeq(block, at + 1, last)>>

(* variant: the object also keeps the block it was read from *)
QuestionObject_withblock(block) ==
    LET q_match == FieldMatch(block, {"Question:", "Question 1:"}, {"Instructions:"})
        i_match == FieldMatch(block, {"Instructions:"}, {"Expected Answer:"})
        a_match == FieldMatch(block, {"Expected Answer:"}, {})
    IN  (IF q_match[1] THEN [question |-> q_match[2]] ELSE <<>>)
        @@ (IF i_match[1] THEN [instructions |-> i_match[2]] ELSE <<>>)
        @@ (IF a_match[1] THEN [expected_answer |-> a_match[2]] ELSE <<>>)
        @@ [block |-> block]

QuestionObject(block) ==
    LET q_match == FieldMatch(block, {"Question:", "Question 1:"}, {"Instructions:"})
        i_match == FieldMatch(block, {"Instructions:"}, {"Expected Answer:"})
        a_match == FieldMatch(block, {"Expected Answer:"}, {})
    IN  (IF q_match[1] THEN [question |-> q_match[2]] ELSE <<>>)
        @@ (IF i_match[1] THEN [instructions |-> i_match[2]] ELSE <<>>)
        @@ (IF a_match[1] THEN [expected_answer |-> a_match[2]] ELSE <<>>)

(* the loop over re.finditer: start is the position of a marker, or 0 when none is left *)
RECURSIVE ExtractFrom(_, _)
ExtractFrom(text, start) ==
    IF start = 0 THEN <<>>
    ELSE LET next_match == FindToken(text, {"Question:", "Question 1:"}, start + 1)
             end_pos == IF next_match = 0 THEN Len(text) ELSE next_match - 1
             question_obj == QuestionObject(SubSeq(text, start, end_pos))
         IN  (IF DOMAIN question_obj # {} THEN <<question_obj>> ELSE <<>>)
             \o ExtractFrom(text, next_match)

_extract_questions_from_text(text) ==
    ExtractFrom(text, FindToken(text, {"Question:", "Question 1:"}, 1))

(* the texts the language model answers with *)
LLMTexts ==
    { <<"Question 1:", "w", "Instructions:", "w", "Expected Answer:", "w">>,
      <<"w", "w">> }

----------------------------------------------------------------------------
(* main.generate_homework, step by step through
   HomeworkGenerator.generate_personalized_homework and
   RAGDatabaseIntegration.generate_personalized_homework *)

(* the except clause of HomeworkGenerator.generate_personalized_homework *)
ExceptionResult ==
    [error |-> "Error generating personalized homework",
     student_id |-> args.student_id,
     template_id |-> args.template_id]

hw_call ==
    /\ pc = "idle"
    /\ \E call \in HomeworkCalls :
         /\ call.save_to_db => Len(homeworks) < MaxHomeworks
         /\ args' = call
    /\ lastOp' = "homework"
    /\ result' = <<>>
    /\ template_data' = <<>>
    /\ selected' = None
    /\ content' = <<>>
    /\ trace' = <<>>
    /\ pc' = "student_lookup"
    /\ UNCHANGED <<tables, homeworks, groups, collections>>

(* variant: the call goes on without looking whether the student row was found *)
student_lookup_unchecked ==
    /\ pc = "student_lookup"
    /\ trace' = Append(trace, "student_lookup")
    /\ IF Truthy(args.template_id)
       THEN /\ selected' = args.template_id
            /\ template_data' = template_data
            /\ pc' = "template_lookup"
       ELSE /\ UNCHANGED <<selected, template_data>>
            /\ pc' = "similarity_query"
    /\ UNCHANGED <<tables, homeworks, groups, collections, lastOp, args, result, content>>

(* db_integration: the student row, or the error dictionary *)
student_lookup ==
    /\ pc = "student_lookup"
    /\ trace' = Append(trace, "student_lookup")
    /\ IF Where(students, "student_id", args.student_id) = <<>>
       THEN /\ template_data' = [error |-> "Student not found"]
            /\ selected' = selected
            /\ pc' = "save"
       ELSE IF Truthy(args.template_id)
       THEN /\ selected' = args.template_id
            /\ template_data' = template_data
            /\ pc' = "template_lookup"
       ELSE /\ UNCHANGED <<selected, template_data>>
            /\ pc' = "similarity_query"
    /\ UNCHANGED <<tables, homeworks, groups, collections, lastOp, args, result, content>>

(* the entries of the collection that pass the where filter *)
Matching(coll, class_id) ==
    IF Truthy(class_id)
    THEN {coll[i] : i \in {j \in DOMAIN coll : coll[j].class_id = str(class_id)}}
    ELSE {coll[i] : i \in DOMAIN coll}

Min(a, b) == IF a < b THEN a ELSE b

(* collection.query: n_results entries of the matching ones, best first; which entry is
   closest to the query is decided by the embeddings *)
QueryResults(matching, n_results) ==
    {r \in [1 .. Min(n_results, Cardinality(matching)) -> matching] :
        \A i, j \in DOMAIN r : i # j => r[i] # r[j]}

NResults == 3

similarity_query ==
    /\ pc = "similarity_query"
    /\ \/ (* the query raises *)
          /\ template_data' = ExceptionResult
          /\ trace' = Append(Append(trace, "similarity_query"), "error")
          /\ selected' = selected
          /\ pc' = "save"
       \/ \E results \in QueryResults(Matching(homework_collection, args.class_id), NResults) :
            /\ trace' = Append(trace, "similarity_query")
            /\ IF results = <<>>
               THEN /\ template_data' = [error |-> "No suitable homework templates found"]
                    /\ selected' = selected
                    /\ pc' = "save"
               ELSE /\ selected' = int(results[1].template_id)
                    /\ template_data' = template_data
                    /\ pc' = "template_lookup"
    /\ UNCHANGED <<tables, homeworks, groups, collections, lastOp, args, result, content>>

(* db_integration: the template row of the selected id and the dictionary built from it *)
template_lookup ==
    /\ pc = "template_lookup"
    /\ LET found == Where(homeworkTemplates, "template_id", selected)
       IN  IF found = <<>>
           THEN IF Truthy(args.template_id)
                THEN /\ template_data' = [error |-> "Homework template not found"]
                     /\ trace' = Append(trace, "template_selection")
                     /\ pc' = "save"
                ELSE (* template is None: template.template_id raises *)
                     /\ template_data' = ExceptionResult
                     /\ trace' = Append(Append(trace, "template_selection"), "error")
                     /\ pc' = "save"
           ELSE /\ template_data' = [template_id |-> Head(found).template_id,
                                     student_id |-> args.student_id,
                                     template_questions |-> Head(found).questions,
                                     personalized_questions |-> Head(found).questions]
                /\ trace' = Append(trace, "template_selection")
                /\ pc' = "create_prompt"
    /\ UNCHANGED <<tables, homeworks, groups, collections, lastOp, args, result, selected, content>>

(* HomeworkGenerator._create_personalization_prompt: the free-form profile data may
   make it raise *)
create_prompt ==
    /\ pc = "create_prompt"
    /\ \/ /\ trace' = Append(trace, "prompt_construction")
          /\ template_data' = template_data
          /\ pc' = "generate_content"
       \/ /\ trace' = Append(Append(trace, "prompt_construction"), "error")
          /\ template_data' = ExceptionResult
          /\ pc' = "save"
    /\ UNCHANGED <<tables, homeworks, groups, collections, lastOp, args, result, selected, content>>

(* variant: a failed call of the model is tried a second time *)
generate_content_retry ==
    /\ pc = "generate_content"
    /\ \/ /\ trace' = Append(Append(Append(trace, "llm_call"), "llm_call"), "llm_error")
          /\ content' = [str |-> TRUE, text |-> <<>>]
       \/ \E text \in LLMTexts :
            /\ trace' = Append(trace, "llm_call")
            /\ content' = [str |-> TRUE, text |-> text]
    /\ pc' = "extract"
    /\ UNCHANGED <<tables, homeworks, groups, collections, lastOp, args, result, selected, template_data>>

(* HomeworkGenerator._generate_content: the text of the response, and "" when
   the prompt template or the call of the model raises *)
generate_content ==
    /\ pc = "generate_content"
    /\ \/ (* PromptTemplate(...) raises: the model is not called *)
          /\ trace' = Append(trace, "llm_error")
          /\ content' = [str |-> TRUE, text |-> <<>>]
       \/ (* self.llm.invoke raises *)
          /\ trace' = Append(Append(trace, "llm_call"), "llm_error")
          /\ content' = [str |-> TRUE, text |-> <<>>]
       \/ \E text \in LLMTexts :
            /\ trace' = Append(trace, "llm_call")
            /\ content' = [str |-> TRUE, text |-> text]
       \/ (* response.content is a list of content blocks *)
          /\ trace' = Append(trace, "llm_call")
          /\ content' = [str |-> FALSE, text |-> <<>>]
    /\ pc' = "extract"
    /\ UNCHANGED <<tables, homeworks, groups, collections, lastOp, args, result, selected, template_data>>

(* variant: the extracted list is not put into the dictionary *)
extract_unstored ==
    /\ pc = "extract"
    /\ IF content.str
       THEN /\ template_data' = template_data @@ [generation_timestamp |-> "now"]
            /\ trace' = Append(trace, "text_extraction")
       ELSE /\ template_data' = ExceptionResult
            /\ trace' = Append(Append(trace, "text_extraction"), "error")
    /\ pc' = "save"
    /\ UNCHANGED <<tables, homeworks, groups, collections, lastOp, args, result, selected, content>>

(* HomeworkGenerator lines 78-86: extraction and the update of the dictionary;
   re.finditer raises on a content that is not a string *)
extract ==
    /\ pc = "extract"
    /\ IF content.str
       THEN /\ template_data' =
                 [template_data EXCEPT
                     !.personalized_questions = _extract_questions_from_text(content.text)]
                 @@ [generation_timestamp |-> "now"]
            /\ trace' = Append(trace, "text_extraction")
       ELSE /\ template_data' = ExceptionResult
            /\ trace' = Append(Append(trace, "text_extraction"), "error")
    /\ pc' = "save"
    /\ UNCHANGED <<tables, homeworks, groups, collections, lastOp, args, result, selected, content>>

(* variant: the row is written as soon as the model has answered, before extraction *)
save_early ==
    /\ pc \in {"extract", "save"}
    /\ IF args.save_to_db /\ "error" \notin DOMAIN template_data
       THEN /\ homeworks' = Append(homeworks,
                                   [homework_id |-> Len(homeworks) + 1,
                                    template_id |-> template_data.template_id,
                                    student_id |-> template_data.student_id,
                                    generation_status |-> "Completed",
                                    personalized_questions |-> template_data.personalized_questions])
            /\ result' = template_data @@ [homework_id |-> Len(homeworks) + 1]
            /\ trace' = Append(trace, "relational_write")
       ELSE /\ homeworks' = homeworks
            /\ result' = template_data
            /\ trace' = trace
    /\ pc' = "idle"
    /\ UNCHANGED <<tables, groups, collections, lastOp, args, selected, content, template_data>>

(* variant: the row is written whether or not saving was asked for *)
save_always ==
    /\ pc = "save"
    /\ IF "error" \notin DOMAIN template_data
       THEN /\ homeworks' = Append(homeworks,
                                   [homework_id |-> Len(homeworks) + 1,
                                    template_id |-> template_data.template_id,
                                    student_id |-> template_data.student_id,
                                    generation_status |-> "Completed",
                                    personalized_questions |-> template_data.personalized_questions])
            /\ result' = template_data @@ [homework_id |-> Len(homeworks) + 1]
            /\ trace' = Append(trace, "relational_write")
       ELSE /\ homeworks' = homeworks
            /\ result' = template_data
            /\ trace' = trace
    /\ pc' = "idle"
    /\ UNCHANGED <<tables, groups, collections, lastOp, args, selected, content, template_data>>

(* main.generate_homework lines 66-85 *)
save ==
    /\ pc = "save"
    /\ IF args.save_to_db /\ "error" \notin DOMAIN template_data
       THEN /\ homeworks' = Append(homeworks,
                                   [homework_id |-> Len(homeworks) + 1,
                                    template_id |-> template_data.template_id,
                                    student_id |-> template_data.student_id,
                                    generation_status |-> "Completed",
                                    personalized_questions |-> template_data.personalized_questions])
            /\ result' = template_data @@ [homework_id |-> Len(homeworks) + 1]
            /\ trace' = Append(trace, "relational_write")
       ELSE /\ homeworks' = homeworks
            /\ result' = template_data
            /\ trace' = trace
    /\ pc' = "idle"
    /\ UNCHANGED <<tables, groups, collections, lastOp, args, selected, content, template_data>>

----------------------------------------------------------------------------
(* the public sync methods of RAGDatabaseIntegration, called on their own *)
SyncHomeworkTemplates ==
    /\ pc = "idle"
    /\ LET hw == sync_all_homework_templates(homework_collection, homeworkTemplates)
       IN  /\ homework_collection' = hw.coll
           /\ result' = hw.synced_ids
    /\ lastOp' = "sync_homework"
    /\ args' = [homework |-> Len(homework_collection),
                activity |-> Len(activity_collection),
                students |-> Len(student_profiles_collection)]
    /\ UNCHANGED <<tables, homeworks, groups, client_collections, activity_collection,
                   student_profiles_collection, callState>>

SyncActivityTemplates ==
    /\ pc = "idle"
    /\ LET act == sync_all_activity_templates(activity_collection, activityTemplates)
       IN  /\ activity_collection' = act.coll
           /\ result' = act.synced_ids
    /\ lastOp' = "sync_activity"
    /\ args' = [homework |-> Len(homework_collection),
                activity |-> Len(activity_collection),
                students |-> Len(student_profiles_collection)]
    /\ UNCHANGED <<tables, homeworks, groups, client_collections, homework_collection,
                   student_profiles_collection, callState>>

SyncStudentProfiles ==
    /\ pc = "idle"
    /\ LET stu == sync_all_student_profiles(student_profiles_collection, students)
       IN  /\ student_profiles_collection' = stu.coll
           /\ result' = stu.synced_ids
    /\ lastOp' = "sync_students"
    /\ args' = [homework |-> Len(homework_collection),
                activity |-> Len(activity_collection),
                students |-> Len(student_profiles_collection)]
    /\ UNCHANGED <<tables, homeworks, groups, client_collections, homework_collection,
                   activity_collection, callState>>

----------------------------------------------------------------------------
(* the database seed_data.seed_database leaves: one student, one homework template
   and one activity template of class 1 *)
InitSeeded ==
    /\ students = <<[student_id |-> 1]>>
    /\ homeworkTemplates = <<[template_id |-> 1, class_id |-> 1, questions |-> TemplateQuestions]>>
    /\ activityTemplates = <<[template_id |-> 1, class_id |-> 1]>>
    /\ homeworks = <<>>
    /\ groups = <<>>
    /\ client_collections = CollectionNames
    /\ homework_collection = <<>>
    /\ activity_collection = <<>>
    /\ student_profiles_collection = <<>>
    /\ lastOp = "init"
    /\ args = <<>>
    /\ result = <<>>
    /\ pc = "idle"
    /\ template_data = <<>>
    /\ selected = None
    /\ content = <<>>
    /\ trace = <<>>

(* an empty database and a persistence directory no client has opened yet *)
InitFresh ==
    /\ students = <<>>
    /\ homeworkTemplates = <<>>
    /\ activityTemplates = <<>>
    /\ homeworks = <<>>
    /\ groups = <<>>
    /\ client_collections = {}
    /\ homework_collection = <<>>
    /\ activity_collection = <<>>
    /\ student_profiles_collection = <<>>
    /\ lastOp = "init"
    /\ args = <<>>
    /\ result = <<>>
    /\ pc = "idle"
    /\ template_data = <<>>
    /\ selected = None
    /\ content = <<>>
    /\ trace = <<>>

(* Collection creation on a fresh directory, with the inserts and the sync that fill
   the collections *)
NextCreate ==
    \/ InsertStudent
    \/ InsertHomeworkTemplate
    \/ init_chroma_db
    \/ sync_data_to_chroma

SpecCreate == InitFresh /\ [][NextCreate]_vars

(* the texts _extract_questions_from_text is applied to: every sequence of at most
   MaxTextLen tokens *)
MaxTextLen == 4
Tokens == {"Question:", "Question 1:", "Instructions:", "Expected Answer:", "Question",
           "w", "v"}
Texts == UNION {[1 .. k -> Tokens] : k \in 0 .. MaxTextLen}

(* a homework call on the seeded database at the point where the model has answered
   with some text *)
InitExtract ==
    /\ students = <<[student_id |-> 1]>>
    /\ homeworkTemplates = <<[template_id |-> 1, class_id |-> 1, questions |-> TemplateQuestions]>>
    /\ activityTemplates = <<[template_id |-> 1, class_id |-> 1]>>
    /\ homeworks = <<>>
    /\ groups = <<>>
    /\ client_collections = CollectionNames
    /\ homework_collection = <<>>
    /\ activity_collection = <<>>
    /\ student_profiles_collection = <<>>
    /\ lastOp = "homework"
    /\ args = [student_id |-> 1, template_id |-> 1, class_id |-> None, save_to_db |-> TRUE]
    /\ result = <<>>
    /\ pc = "extract"
    /\ template_data = [template_id |-> 1, student_id |-> 1,
                        template_questions |-> TemplateQuestions,
                        personalized_questions |-> TemplateQuestions]
    /\ selected = 1
    /\ content \in [str : {TRUE}, text : Texts]
    /\ trace = <<"student_lookup", "template_selection", "prompt_construction", "llm_call">>

(* Extraction applied to every text, and the save that follows it *)
NextExtract ==
    \/ extract
    \/ save

SpecExtract == InitExtract /\ [][NextExtract]_vars

(* main.main: the dispatch on the subcommand. RAGDatabaseIntegration(...) creates the
   collections; result.reached names the operation the command got to, or the
   exception that ended it *)
Commands == {"init", "sync", "homework", "pairings", "server"}
NoCommand == ""

main ==
    /\ pc = "idle"
    /\ lastOp' = "main"
    /\ \/ (* no subcommand: parser.print_help() *)
          /\ args' = [command |-> NoCommand]
          /\ result' = [reached |-> "print_help"]
          /\ UNCHANGED <<groups, collections>>
       \/ /\ args' = [command |-> "init"]
          /\ client_collections' = create_collections.names
          /\ homework_collection' = create_collections.homework
          /\ activity_collection' = create_collections.activity
          /\ student_profiles_collection' = create_collections.student_profiles
          /\ result' = [reached |-> "create_collections"]
          /\ groups' = groups
       \/ /\ args' = [command |-> "sync"]
          /\ client_collections' = create_collections.names
          /\ homework_collection' =
                 sync_all_homework_templates(create_collections.homework,
                                             homeworkTemplates).coll
          /\ activity_collection' =
                 sync_all_activity_templates(create_collections.activity,
                                             activityTemplates).coll
          /\ student_profiles_collection' =
                 sync_all_student_profiles(create_collections.student_profiles,
                                           students).coll
          /\ result' = [reached |-> "sync_data_to_chroma"]
          /\ groups' = groups
       \/ (* HomeworkGenerator(db_integration): __init__ takes (openai_api_key,
             db_integration), the call raises TypeError and main ends with it *)
          /\ \E student_id \in StudentIdArgs :
                args' = [command |-> "homework", student_id |-> student_id]
          /\ client_collections' = create_collections.names
          /\ homework_collection' = create_collections.homework
          /\ activity_collection' = create_collections.activity
          /\ student_profiles_collection' = create_collections.student_profiles
          /\ result' = [reached |-> "TypeError"]
          /\ groups' = groups
       \/ \E class_id \in ClassIdArgs \ {None}, activity_template_id \in TemplateIdArgs,
             no_save \in BOOLEAN :
            LET r == db_generate_activity_pairings(class_id, activity_template_id)
                saving == ~no_save /\ "pairings" \in DOMAIN r /\ r.pairings # <<>>
                rows == IF saving THEN SavedGroupRows(r.pairings, Len(groups) + 1) ELSE <<>>
            IN  /\ Len(groups) + Len(rows) <= MaxGroups
                /\ args' = [command |-> "pairings", class_id |-> class_id,
                            template_id |-> activity_template_id, no_save |-> no_save]
                /\ client_collections' = create_collections.names
                /\ homework_collection' = create_collections.homework
                /\ activity_collection' = create_collections.activity
                /\ student_profiles_collection' = create_collections.student_profiles
                /\ groups' = groups \o rows
                /\ result' = [reached |-> "generate_activity_pairings"]
       \/ (* server: subprocess.run of the chromadb server on the directory *)
          /\ args' = [command |-> "server"]
          /\ result' = [reached |-> "server_launch"]
          /\ UNCHANGED <<groups, collections>>
    /\ UNCHANGED <<tables, homeworks, callState>>

(* The command line on a fresh directory, with the relational inserts *)
NextCLI ==
    \/ InsertStudent
    \/ InsertActivityTemplate
    \/ main

SpecCLI == InitFresh /\ [][NextCLI]_vars

(* a database with a class of up to MaxClassSize students enrolled and no template *)
MaxClassSize == 5

InitClass ==
    /\ students \in {[i \in 1 .. n |-> [student_id |-> i]] : n \in 0 .. MaxClassSize}
    /\ homeworkTemplates = <<>>
    /\ activityTemplates = <<>>
    /\ homeworks = <<>>
    /\ groups = <<>>
    /\ client_collections = CollectionNames
    /\ homework_collection = <<>>
    /\ activity_collection = <<>>
    /\ student_profiles_collection = <<>>
    /\ lastOp = "init"
    /\ args = <<>>
    /\ result = <<>>
    /\ pc = "idle"
    /\ template_data = <<>>
    /\ selected = None
    /\ content = <<>>
    /\ trace = <<>>

(* The pairing generator on classes of every size *)
NextClass ==
    \/ InsertActivityTemplate
    \/ generate_activity_pairings

SpecClass == InitClass /\ [][NextClass]_vars

(* The sync routine with the relational inserts *)
NextSync ==
    \/ InsertStudent
    \/ InsertHomeworkTemplate
    \/ InsertActivityTemplate
    \/ SyncHomeworkTemplates
    \/ SyncActivityTemplates
    \/ SyncStudentProfiles
    \/ sync_data_to_chroma

SpecSync == Init /\ [][NextSync]_vars

(* The pairing generator with the relational inserts *)
NextPairings ==
    \/ InsertStudent
    \/ InsertActivityTemplate
    \/ generate_activity_pairings

SpecPairings == Init /\ [][NextPairings]_vars

(* The homework pipeline on the seeded database, with further templates inserted
   and the template sync *)
NextHomework ==
    \/ InsertHomeworkTemplate
    \/ SyncHomeworkTemplates
    \/ hw_call
    \/ student_lookup
    \/ similarity_query
    \/ template_lookup
    \/ create_prompt
    \/ generate_content
    \/ extract
    \/ save

SpecHomework == InitSeeded /\ [][NextHomework]_vars

(* Enrolment, template sync, pairing and homework generation on the seeded database *)
Next ==
    \/ InsertStudent
    \/ SyncHomeworkTemplates
    \/ generate_activity_pairings
    \/ hw_call
    \/ student_lookup
    \/ similarity_query
    \/ template_lookup
    \/ create_prompt
    \/ generate_content
    \/ extract
    \/ save

Spec == InitSeeded /\ [][Next]_vars

----------------------------------------------------------------------------
(* Properties *)

(* C1: for n >= 2 students and an activity template that resolves, the pairing
   generator returns a 'pairings' list of exactly floor(n/2) entries. *)
C1_PairingCount ==
    (/\ lastOp = "pairings"
     /\ Len(students) >= 2
     /\ SelectActivityTemplate(args.class_id, args.activity_template_id) # <<>>)
    => /\ "pairings" \in DOMAIN result
       /\ Len(result.pairings) = Len(students) \div 2

C1_Witness ==
    /\ lastOp = "pairings"
    /\ Len(students) = 4
    /\ "pairings" \in DOMAIN result
    /\ Len(result.pairings) = 2

(* C2: a sync function run against an empty collection stores exactly one entry per
   row of its table and returns one id per row; the counts sync_data_to_chroma
   reports are the row counts of the three tables. *)
OnePerRow(coll, ids) ==
    /\ Len(coll) = Len(ids)
    /\ \A r \in DOMAIN ids : Cardinality({i \in DOMAIN coll : coll[i].id = ids[r]}) = 1

HomeworkIds == [r \in DOMAIN homeworkTemplates |-> HomeworkEntryId(homeworkTemplates[r].template_id)]
ActivityIds == [r \in DOMAIN activityTemplates |-> ActivityEntryId(activityTemplates[r].template_id)]
StudentIds == [r \in DOMAIN students |-> StudentEntryId(students[r].student_id)]

C2_SyncOneEntryPerRow ==
    /\ (lastOp = "sync_homework" /\ args.homework = 0)
         => (result = HomeworkIds /\ OnePerRow(homework_collection, HomeworkIds))
    /\ (lastOp = "sync_activity" /\ args.activity = 0)
         => (result = ActivityIds /\ OnePerRow(activity_collection, ActivityIds))
    /\ (lastOp = "sync_students" /\ args.students = 0)
         => (result = StudentIds /\ OnePerRow(student_profiles_collection, StudentIds))
    /\ lastOp = "sync"
         => /\ result.homework_templates = Len(homeworkTemplates)
            /\ result.activity_templates = Len(activityTemplates)
            /\ result.student_profiles = Len(students)
            /\ args.homework = 0 => OnePerRow(homework_collection, HomeworkIds)
            /\ args.activity = 0 => OnePerRow(activity_collection, ActivityIds)
            /\ args.students = 0 => OnePerRow(student_profiles_collection, StudentIds)

C2_Witness ==
    /\ lastOp = "sync"
    /\ args.homework = 0 /\ args.activity = 0 /\ args.students = 0
    /\ result.homework_templates = 2
    /\ result.activity_templates = 2
    /\ result.student_profiles = 3
    /\ homeworkTemplates[1].class_id = homeworkTemplates[2].class_id

(* C3: generate_personalized_homework never raises, and whenever a stage fails
   (student lookup, template lookup, similarity search, prompt construction, LLM
   call, text extraction) the dictionary it returns has an "error" key. *)
StageFailed ==
    \/ Where(students, "student_id", args.student_id) = <<>>
    \/ Truthy(args.template_id) /\ Where(homeworkTemplates, "template_id", args.template_id) = <<>>
    \/ "error" \in Range(trace)
    \/ "llm_error" \in Range(trace)
    \/ "similarity_query" \in Range(trace) /\ "template_selection" \notin Range(trace)

C3_FailureGivesErrorKey ==
    (pc = "idle" /\ lastOp = "homework" /\ StageFailed) => "error" \in DOMAIN result

(* C4: pairing k (0 <= k < floor(n/2)) has the student at list position 2k as student1
   and the student at position 2k+1 as student2, and generating the pairings makes
   no query to the vector store (the collections and the query log are untouched). *)
C4_PairsByPosition ==
    [][(lastOp' = "pairings" /\ "pairings" \in DOMAIN result')
       => /\ Len(result'.pairings) = Len(students) \div 2
          /\ \A k \in 0 .. (Len(students) \div 2 - 1) :
               /\ result'.pairings[k + 1].student1_id = students[2 * k + 1].student_id
               /\ result'.pairings[k + 1].student2_id = students[2 * k + 2].student_id
          /\ trace' = trace
          /\ collections' = collections]_vars

C4_Witness ==
    /\ lastOp = "pairings"
    /\ "pairings" \in DOMAIN result
    /\ Len(students) = 4
    /\ result.pairings[2].student1_id = students[3].student_id
    /\ result.pairings[2].student2_id = students[4].student_id
    /\ "similarity_query" \in Range(trace)

(* C5: in a result without error every one of the n >= 2 students is in exactly one
   pairing (as student1, student2 or student3), and all pairings carry the same
   activity template. *)
Memberships(pairings, student_id) ==
    {m \in (DOMAIN pairings) \X {"student1_id", "student2_id", "student3_id"} :
        /\ m[2] \in DOMAIN pairings[m[1]]
        /\ pairings[m[1]][m[2]] = student_id}

C5_EachStudentInOnePairing ==
    (lastOp = "pairings" /\ "pairings" \in DOMAIN result)
    => /\ Len(students) >= 2
       /\ \A s \in DOMAIN students :
            Cardinality(Memberships(result.pairings, students[s].student_id)) = 1
       /\ \A k1, k2 \in DOMAIN result.pairings :
            result.pairings[k1].activity_template = result.pairings[k2].activity_template

C5_Witness ==
    /\ lastOp = "pairings"
    /\ "pairings" \in DOMAIN result
    /\ Len(students) = 3
    /\ "student3_id" \in DOMAIN result.pairings[1]
    /\ result.pairings[1].student3_id = students[3].student_id

(* C6: the stages of a generate_homework run happen in pipeline order: student
   lookup, similarity query (when no template id is given), template selection,
   prompt construction, LLM call, text extraction, relational write; the LLM is not
   called before a template is selected and nothing is written before extraction. *)
StageRank(e) ==
    CASE e = "student_lookup" -> 1
      [] e = "similarity_query" -> 2
      [] e = "template_selection" -> 3
      [] e = "prompt_construction" -> 4
      [] e = "llm_call" -> 5
      [] e = "text_extraction" -> 6
      [] e = "relational_write" -> 7
      [] OTHER -> 0

Stages == SelectSeq(trace, LAMBDA e : StageRank(e) > 0)

C6_PipelineOrder ==
    /\ \A i, j \in DOMAIN Stages : i < j => StageRank(Stages[i]) < StageRank(Stages[j])
    /\ Stages # <<>> => Stages[1] = "student_lookup"
    /\ "llm_call" \in Range(Stages) =>
          {"template_selection", "prompt_construction"} \subseteq Range(Stages)
    /\ "relational_write" \in Range(Stages) =>
          {"template_selection", "prompt_construction", "text_extraction"} \subseteq Range(Stages)
    /\ (lastOp = "homework" /\ args.template_id = None /\ "template_selection" \in Range(Stages))
          => "similarity_query" \in Range(Stages)

C6_Witness ==
    /\ pc = "idle"
    /\ lastOp = "homework"
    /\ Stages = <<"student_lookup", "similarity_query", "template_selection",
                  "prompt_construction", "llm_call", "text_extraction", "relational_write">>

(* C7: every persisted PersonalizedHomework row references an existing Student and an
   existing HomeworkTemplate, and every persisted ActivityGroup row references an
   existing ActivityTemplate and two existing, distinct Students. *)
C7_ForeignKeys ==
    /\ \A h \in DOMAIN homeworks :
         /\ Where(students, "student_id", homeworks[h].student_id) # <<>>
         /\ Where(homeworkTemplates, "template_id", homeworks[h].template_id) # <<>>
    /\ \A g \in DOMAIN groups :
         /\ Where(activityTemplates, "template_id", groups[g].activity_template_id) # <<>>
         /\ Where(students, "student_id", groups[g].student_id_1) # <<>>
         /\ Where(students, "student_id", groups[g].student_id_2) # <<>>
         /\ groups[g].student_id_1 # groups[g].student_id_2

C7_Witness ==
    /\ Len(homeworks) >= 1
    /\ Len(groups) >= 2
    /\ groups[2].student_id_1 = 3

(* C8: each collection holds at most one entry per relational identifier: the entry
   ids are 'homework_template_<id>', 'activity_template_<id>', 'student_profile_<id>'
   of rows of the table, distinct rows have distinct ids, and a sync run again adds
   no second entry for a row already synced. *)
UniqueIds(coll) == \A i, j \in DOMAIN coll : coll[i].id = coll[j].id => i = j
Injective(ids) == \A r1, r2 \in DOMAIN ids : ids[r1] = ids[r2] => r1 = r2

C8_OneEntryPerIdentifier ==
    /\ UniqueIds(homework_collection)
    /\ UniqueIds(activity_collection)
    /\ UniqueIds(student_profiles_collection)
    /\ \A i \in DOMAIN homework_collection : homework_collection[i].id \in Range(HomeworkIds)
    /\ \A i \in DOMAIN activity_collection : activity_collection[i].id \in Range(ActivityIds)
    /\ \A i \in DOMAIN student_profiles_collection :
         student_profiles_collection[i].id \in Range(StudentIds)
    /\ Injective(HomeworkIds) /\ Injective(ActivityIds) /\ Injective(StudentIds)

C8_Witness ==
    /\ lastOp = "sync"
    /\ args.homework = 1 /\ args.activity = 1 /\ args.students = 2
    /\ Len(homework_collection) = 2
    /\ Len(activity_collection) = 2
    /\ Len(student_profiles_collection) = 3

(* C9: the pairing generator returns a dictionary with an "error" key and no 'pairings'
   key exactly when fewer than two students exist, or the given activity_template_id
   matches no ActivityTemplate, or no id is given and no ActivityTemplate has the
   given class_id; otherwise it returns a 'pairings' list and no "error" key. *)
C9_ErrorCase ==
    \/ Len(students) < 2
    \/ /\ args.activity_template_id # None
       /\ Where(activityTemplates, "template_id", args.activity_template_id) = <<>>
    \/ /\ args.activity_template_id = None
       /\ Where(activityTemplates, "class_id", args.class_id) = <<>>

C9_ErrorExactlyWhen ==
    lastOp = "pairings"
    => IF C9_ErrorCase
       THEN "error" \in DOMAIN result /\ "pairings" \notin DOMAIN result
       ELSE "pairings" \in DOMAIN result /\ "error" \notin DOMAIN result

(* C10: within one call of generate_personalized_homework the LLM is invoked at most
   once and the vector store is queried at most once, also when a call fails. *)
C10_NoRetry ==
    /\ Count(trace, "llm_call") <= 1
    /\ Count(trace, "similarity_query") <= 1

C10_Witness ==
    /\ pc = "idle"
    /\ lastOp = "homework"
    /\ Count(trace, "similarity_query") = 1
    /\ Count(trace, "llm_call") = 1
    /\ "llm_error" \in Range(trace)

(* C11: after create_collections the vector store holds exactly the three collections
   homework_templates, activity_templates and student_profiles, and a call on a store
   that has them adds no collection and leaves every entry as it was *)
C11_CreateCollectionsIdempotent ==
    [][lastOp' = "create_collections" =>
          /\ client_collections' = {"homework_templates", "activity_templates",
                                    "student_profiles"}
          /\ client_collections \subseteq client_collections'
          /\ homework_collection' = homework_collection
          /\ activity_collection' = activity_collection
          /\ student_profiles_collection' = student_profiles_collection]_vars

(* create_collections has run on a store whose collections hold entries *)
C11_Witness ==
    /\ lastOp = "create_collections"
    /\ args.homework >= 1
    /\ args.students >= 1
    /\ Len(homework_collection) = args.homework

(* the positions of the markers "Question:" and "Question <digits>:" in a text *)
Markers(text) == {i \in DOMAIN text : text[i] \in {"Question:", "Question 1:"}}

(* the end of the stretch of text that starts at marker m: the token before the next
   marker, or the last token *)
StretchEnd(text, m) ==
    IF \E n \in Markers(text) : n > m
    THEN (CHOOSE n \in Markers(text) : n > m /\ \A k \in Markers(text) : k > m => n <= k) - 1
    ELSE Len(text)

(* every value of the object is a run of tokens after marker m and before the next one *)
ReadFrom(text, m, obj) ==
    \A key \in DOMAIN obj :
        \E a \in m + 1 .. StretchEnd(text, m) + 1, b \in m .. StretchEnd(text, m) :
            obj[key] = SubSeq(text, a, b)

(* C12: _extract_questions_from_text returns, in the order of the markers they were read
   from, at most one object per marker of the text; every object is non-empty and has
   only the keys question, instructions and expected_answer; a text without a marker
   gives the empty list *)
C12_ExtractedQuestions ==
    (pc \in {"save", "idle"} /\ lastOp = "homework"
        /\ "generation_timestamp" \in DOMAIN template_data) =>
        LET text == content.text
            questions == template_data.personalized_questions
        IN  /\ Len(questions) <= Cardinality(Markers(text))
            /\ \A i \in DOMAIN questions :
                   /\ DOMAIN questions[i] # {}
                   /\ DOMAIN questions[i] \subseteq {"question", "instructions", "expected_answer"}
            /\ Markers(text) = {} => questions = <<>>
            /\ \E f \in [DOMAIN questions -> Markers(text)] :
                   /\ \A i, j \in DOMAIN questions : i < j => f[i] < f[j]
                   /\ \A i \in DOMAIN questions : ReadFrom(text, f[i], questions[i])

(* a text with two markers that give two different objects *)
C12_Witness ==
    /\ pc = "save"
    /\ "generation_timestamp" \in DOMAIN template_data
    /\ Cardinality(Markers(content.text)) = 2
    /\ Len(template_data.personalized_questions) = 2
    /\ template_data.personalized_questions[1] # template_data.personalized_questions[2]

(* the operation each subcommand is to reach *)
Operation(command) ==
    CASE command = "init" -> "create_collections"
      [] command = "sync" -> "sync_data_to_chroma"
      [] command = "homework" -> "generate_homework"
      [] command = "pairings" -> "generate_activity_pairings"
      [] command = "server" -> "server_launch"
      [] command = NoCommand -> "print_help"

(* C13: every run of the command line reaches the operation of its subcommand (init:
   collection creation, sync: sync_data_to_chroma, homework: generate_homework,
   pairings: generate_activity_pairings, server: the server launch), and a run without
   a subcommand prints help and leaves the relational and the vector store alone *)
C13_SubcommandsReachOperation ==
    [][lastOp' = "main" =>
          /\ result'.reached = Operation(args'.command)
          /\ args'.command = NoCommand =>
                 UNCHANGED <<tables, homeworks, groups, collections>>]_vars

(* C14: generate_homework writes a PersonalizedHomework row exactly when save_to_db is
   true and the result has no error: then it appends one row with status "Completed"
   and the result's template_id, student_id and personalized_questions, and puts the
   row's homework_id into the result; in every other case, and in every earlier step
   of the call, the relational store stays as it was *)
C14_RowWrittenIff ==
    [][lastOp' = "homework" =>
          /\ UNCHANGED <<tables, groups>>
          /\ IF pc' = "idle"
             THEN IF args.save_to_db /\ "error" \notin DOMAIN result'
                  THEN /\ Len(homeworks') = Len(homeworks) + 1
                       /\ SubSeq(homeworks', 1, Len(homeworks)) = homeworks
                       /\ LET row == homeworks'[Len(homeworks')]
                          IN  /\ row.generation_status = "Completed"
                              /\ row.template_id = result'.template_id
                              /\ row.student_id = result'.student_id
                              /\ row.personalized_questions = result'.personalized_questions
                              /\ "homework_id" \in DOMAIN result'
                              /\ result'.homework_id = row.homework_id
                  ELSE /\ homeworks' = homeworks
                       /\ "homework_id" \notin DOMAIN result'
             ELSE homeworks' = homeworks]_vars

(* a call with save_to_db has ended without error and its row is in the table *)
C14_Witness ==
    /\ pc = "idle"
    /\ lastOp = "homework"
    /\ args.save_to_db
    /\ "homework_id" \in DOMAIN result
    /\ Len(homeworks) = 1
    /\ homeworks[1].homework_id = result.homework_id

(* the student of the current call has a row *)
StudentExists == Where(students, "student_id", args.student_id) # <<>>

(* C15: a homework call with an integer template_id (anything but None) for an existing
   student never queries the vector store; the dictionary the database step builds is
   the one of the HomeworkTemplate with that id, and when no template has the id the
   step returns the error "Homework template with ID <id> not found" *)
C15_GivenTemplateIsUsed ==
    (lastOp = "homework" /\ args.template_id # None /\ StudentExists) =>
        LET found == Where(homeworkTemplates, "template_id", args.template_id)
        IN  /\ "similarity_query" \notin Range(trace)
            /\ pc = "create_prompt" =>
                   /\ found # <<>>
                   /\ template_data.template_id = args.template_id
                   /\ template_data.template_questions = Head(found).questions
            /\ (pc \in {"save", "idle"} /\ found = <<>>) =>
                   template_data = [error |-> "Homework template not found"]

(* the entries of the homework collection a query for the call's class_id may return *)
Eligible ==
    IF args.class_id = None
    THEN Range(homework_collection)
    ELSE {e \in Range(homework_collection) : e.class_id = str(args.class_id)}

(* C16: a homework call without template_id whose query of the homework collection
   returns makes that one query; the template it selects is the one of an entry whose
   class_id equals the given class_id when a class_id is given (of any entry
   otherwise), and when there is no such entry the database step returns the error
   "No suitable homework templates found" *)
C16_QuerySelectsTemplate ==
    [][(pc = "similarity_query" /\ pc' # "similarity_query" /\ args.template_id = None
            /\ trace' = Append(trace, "similarity_query")) =>
          /\ Count(trace', "similarity_query") = 1
          /\ IF Eligible = {}
             THEN /\ pc' = "save"
                  /\ template_data' = [error |-> "No suitable homework templates found"]
             ELSE /\ pc' = "template_lookup"
                  /\ \E e \in Eligible : selected' = int(e.template_id)]_vars

(* the database step of the current call has returned a dictionary with only an error *)
DbStepError ==
    /\ lastOp = "homework"
    /\ pc \in {"save", "idle"}
    /\ DOMAIN template_data = {"error"}

(* C17: a homework call for a student id without a row ends with the error dictionary
   of the database step, after no vector-store query, no call of the language model and
   no relational write; every error dictionary of the database step is the result of
   the call as it is, after no call of the language model and no relational write, and
   a vector-store query has been made before it only for the error "No suitable
   homework templates found" *)
C17_ErrorPassedThrough ==
    /\ (lastOp = "homework" /\ pc \in {"save", "idle"} /\ ~StudentExists) =>
           /\ template_data = [error |-> "Student not found"]
           /\ trace = <<"student_lookup">>
    /\ DbStepError =>
           /\ "llm_call" \notin Range(trace)
           /\ "relational_write" \notin Range(trace)
           /\ "similarity_query" \in Range(trace) <=>
                  template_data.error = "No suitable homework templates found"
           /\ pc = "idle" => result = template_data

(* the statement of C17 as given: no vector-store query before any error dictionary of
   the database step *)
C17_NoQueryBeforeAnyError ==
    DbStepError =>
        /\ "similarity_query" \notin Range(trace)
        /\ "llm_call" \notin Range(trace)
        /\ "relational_write" \notin Range(trace)
        /\ pc = "idle" => result = template_data

(* a call has ended with the error of the empty query result, after its query *)
C17_Witness ==
    /\ DbStepError
    /\ pc = "idle"
    /\ result = [error |-> "No suitable homework templates found"]
    /\ trace = <<"student_lookup", "similarity_query">>

(* C18: the result of a homework generation without error has as personalized_questions
   the list extracted from the text the language model answered with, as
   template_questions the questions stored with the template, and a
   generation_timestamp *)
C18_PersonalizedQuestionsExtracted ==
    (lastOp = "homework" /\ pc = "idle" /\ "error" \notin DOMAIN result) =>
        /\ result.personalized_questions = _extract_questions_from_text(content.text)
        /\ result.template_questions
              = Head(Where(homeworkTemplates, "template_id", result.template_id)).questions
        /\ "generation_timestamp" \in DOMAIN result

(* a generation has ended with extracted questions that differ from the placeholder *)
C18_Witness ==
    /\ lastOp = "homework"
    /\ pc = "idle"
    /\ "error" \notin DOMAIN result
    /\ result.personalized_questions # <<>>
    /\ result.personalized_questions # result.template_questions
    /\ result.template_questions = TemplateQuestions

(* C19: in the pairings returned for n students, when n is odd the last student is the
   student3 of the last pairing and no other pairing has a student3; when n is even no
   pairing has a student3; a pairing names at most the three students student1,
   student2 and student3 *)
C19_ThirdStudent ==
    (lastOp = "pairings" /\ "pairings" \in DOMAIN result) =>
        LET pairings == result.pairings
            n == Len(students)
        IN  /\ \A k \in DOMAIN pairings :
                   /\ DOMAIN pairings[k] \subseteq
                          {"student1_id", "student2_id", "student3_id",
                           "activity_template", "group_id"}
                   /\ "student3_id" \in DOMAIN pairings[k] <=>
                          (n % 2 = 1 /\ k = Len(pairings))
            /\ n % 2 = 1 =>
                   pairings[Len(pairings)].student3_id = students[n].student_id

(* five students: two pairings, the fifth student in the second one *)
C19_Witness ==
    /\ lastOp = "pairings"
    /\ "pairings" \in DOMAIN result
    /\ Len(students) = 5
    /\ Len(result.pairings) = 2
    /\ "student3_id" \notin DOMAIN result.pairings[1]
    /\ result.pairings[2].student3_id = 5

(* C20: a call of main.generate_activity_pairings with save_to_db that yields pairings
   appends one ActivityGroup row per pairing, in order, gives every pairing the
   group_id of its row, and returns saved_groups with one entry per pairing in the
   order of the pairings; a call without save_to_db or with an error result writes no
   row and has no saved_groups key *)
C20_GroupsSavedPerPairing ==
    [][lastOp' = "pairings" =>
          IF args'.save_to_db /\ "pairings" \in DOMAIN result'
          THEN /\ result'.pairings # <<>>
               /\ Len(groups') = Len(groups) + Len(result'.pairings)
               /\ SubSeq(groups', 1, Len(groups)) = groups
               /\ "saved_groups" \in DOMAIN result'
               /\ Len(result'.saved_groups) = Len(result'.pairings)
               /\ \A k \in DOMAIN result'.pairings :
                      LET pairing == result'.pairings[k]
                          saved == result'.saved_groups[k]
                          row == groups'[Len(groups) + k]
                      IN  /\ "group_id" \in DOMAIN pairing
                          /\ row.group_id = pairing.group_id
                          /\ row.student_id_1 = pairing.student1_id
                          /\ row.student_id_2 = pairing.student2_id
                          /\ row.activity_template_id = pairing.activity_template.template_id
                          /\ saved.group_id = pairing.group_id
                          /\ saved.student1_id = pairing.student1_id
                          /\ saved.student2_id = pairing.student2_id
                          /\ saved.activity_template_id = pairing.activity_template.template_id
          ELSE /\ groups' = groups
               /\ "saved_groups" \notin DOMAIN result']_vars

(* two pairings have been saved as two rows *)
C20_Witness ==
    /\ lastOp = "pairings"
    /\ args.save_to_db
    /\ "saved_groups" \in DOMAIN result
    /\ Len(result.saved_groups) = 2
    /\ Len(groups) = 2
    /\ result.pairings[2].group_id = groups[2].group_id

(* the students a pairing names, and the students an ActivityGroup row records *)
PairingStudents(pairing) ==
    {pairing[key] : key \in DOMAIN pairing \cap {"student1_id", "student2_id", "student3_id"}}
RowStudents(row) ==
    {row[key] : key \in DOMAIN row \cap {"student_id_1", "student_id_2", "student_id_3"}}

(* C21: every student named in a returned pairing that was saved, the third member of
   a three-person group included, is recorded in the ActivityGroup row of that pairing *)
C21_EveryStudentRecorded ==
    (lastOp = "pairings" /\ "saved_groups" \in DOMAIN result) =>
        \A k \in DOMAIN result.pairings :
            LET pairing == result.pairings[k]
            IN  /\ "group_id" \in DOMAIN pairing
                /\ pairing.group_id \in DOMAIN groups
                /\ PairingStudents(pairing) \subseteq RowStudents(groups[pairing.group_id])

(* C22: a homework generation whose call of the language model failed ends with an
   error result and writes no PersonalizedHomework row *)
C22_NoRowAfterFailedLLM ==
    (lastOp = "homework" /\ pc = "idle" /\ "llm_error" \in Range(trace)) =>
        /\ "error" \in DOMAIN result
        /\ "relational_write" \notin Range(trace)
        /\ "homework_id" \notin DOMAIN result

====
